---- MODULE Spec2Model ----
(***************************************************************************)
(* dbcreds: the credential manager (dbcreds/core/manager.py), the backend  *)
(* chain it builds and the keyring, environment-variable and config-file   *)
(* backends it writes to and reads from.                                   *)
(*                                                                         *)
(* Names are sequences of one-character strings so that str.lower(),       *)
(* str.upper() and str.startswith() are computed, not assumed.  An         *)
(* instant is a number of clock ticks, DayLen ticks to the day.            *)
(***************************************************************************)
EXTENDS Integers, Sequences, FiniteSets, TLC

\* ------------------------------------------------------------------ bounds
MaxOps == 4
MaxTime == 1

\* timedelta(days=1) in clock ticks
DayLen == 2

\* ------------------------------------------------------------ python values
None == [kind |-> "None"]

\* str.lower() / str.upper(), character by character
LowerChar(c) == CASE c = "D" -> "d" [] c = "T" -> "t" [] OTHER -> c

UpperChar(c) == CASE c = "d" -> "D" [] c = "t" -> "T" [] OTHER -> c

\* a lower() that leaves letter case as it is
LowerAsGiven(s) == s

Lower(s) == [i \in 1..Len(s) |-> LowerChar(s[i])]

Upper(s) == [i \in 1..Len(s) |-> UpperChar(s[i])]

\* str.startswith(prefix)
StartsWith(s, prefix) ==
    /\ Len(prefix) <= Len(s)
    /\ \A i \in 1..Len(prefix) : s[i] = prefix[i]

\* Environment.name: Field(min_length=1, max_length=50, pattern=^[a-zA-Z0-9_-]+$)
NameChars == {"d", "D", "t", "T", "_"}

ValidName(s) ==
    /\ Len(s) >= 1
    /\ Len(s) <= 50
    /\ \A i \in 1..Len(s) : s[i] \in NameChars

\* f"dbcreds:{env_name}"
StorageKey(env_name) == <<"dbcreds:">> \o env_name

\* the names callers pass in: two letter-case variants of one name and a
\* name that extends it after an underscore
Names == { <<"d">>, <<"D">>, <<"d", "_", "t">> }

OneName == { <<"d">> }

\* add_environment is also given a name the pattern rejects
NewNames == Names \cup { <<"!">> }

LowerNames == { Lower(n) : n \in NewNames }

\* the slots of a backend: one per key the calls can form
Keys == { StorageKey(n) : n \in NewNames \cup LowerNames }

DatabaseTypes == {"postgresql"}

\* class DatabaseType
AllDatabaseTypes == {"postgresql", "mysql", "oracle", "mssql", "sqlite"}

\* ------------------------------------------------------------ backend chain
\* candidate classes of _initialize_backends in the order they are appended
\* (os.name /= "nt": the two Windows classes are not candidates)
BackendClasses == <<"keyring", "environment", "config">>

RECURSIVE InitLoop(_, _, _)
\* for backend_class in backend_classes: append the available ones
InitLoop(i, usable, acc) ==
    IF i > Len(BackendClasses) THEN acc
    ELSE InitLoop(i + 1, usable,
                  IF BackendClasses[i] \in usable
                  THEN Append(acc, BackendClasses[i]) ELSE acc)

\* an initialization without the fallback to the config file
InitializeBackendsNoFallback(current, usable) == InitLoop(1, usable, current)

\* _initialize_backends on the list self.backends; usable: the classes that
\* import, construct and report is_available()
InitializeBackends(current, usable) ==
    LET chain == InitLoop(1, usable, current)
    IN  IF chain = <<>> THEN <<"config">> ELSE chain

EmptyStore == [k \in Keys |-> None]

\* {} and d[k] = v on a dict
EmptyDict == [k \in {} |-> None]

DictSet(d, k, v) == [x \in (DOMAIN d) \cup {k} |-> IF x = k THEN v ELSE d[x]]

\* a del that forgets to delete
DictDelNothing(d, k) == d

DictDel(d, k) == [x \in (DOMAIN d) \ {k} |-> d[x]]

\* ------------------------------------------------------- credential values
\* datetime, tz "utc" (aware) or "naive"
Datetime(t, tz) == [kind |-> "dt", t |-> t, tz |-> tz]

\* model_dump(mode='json') of one datetime field: an ISO string, or null
Iso(v) == IF v.kind = "dt" THEN [kind |-> "iso", t |-> v.t, tz |-> v.tz] ELSE v

\* str(value) of the environment backend: a string is its own str()
Str(v) == IF v.kind = "iso" THEN v ELSE [kind |-> "str", of |-> v.kind]

\* pydantic's datetime parsing of one field
IsDatetime(v) == v.kind \in {"dt", "iso"}

ParseDatetime(v) == Datetime(v.t, v.tz)

\* the options mapping passed as **options
Options == [kind |-> "dict"]

\* DatabaseCredentials(**kw): the validated object, or no object when
\* validation raises (port range, options not a mapping, unparsable dates)
DatabaseCredentials(kw) ==
    IF /\ kw.port > 0
       /\ kw.port <= 65535
       /\ kw.options.kind = "dict"
       /\ IsDatetime(kw.password_updated_at)
       /\ (kw.password_expires_at = None \/ IsDatetime(kw.password_expires_at))
    THEN [ok |-> TRUE,
          creds |-> [environment |-> kw.environment,
                     host |-> kw.host,
                     port |-> kw.port,
                     database |-> kw.database,
                     username |-> kw.username,
                     password |-> kw.password,
                     options |-> kw.options,
                     password_updated_at |-> ParseDatetime(kw.password_updated_at),
                     password_expires_at |->
                         IF kw.password_expires_at = None THEN None
                         ELSE ParseDatetime(kw.password_expires_at)]]
    ELSE [ok |-> FALSE]

\* datetime.utcnow() at instant t: a naive datetime
utcnow(t) == Datetime(t, "naive")

\* comparing or subtracting a naive and an aware datetime raises TypeError
Comparable(a, b) == a.tz = b.tz

\* what a method call on a model object gives: a value, or an exception
Returns(value) == [exc |-> "", ret |-> value]

Raises(exc) == [exc |-> exc]

\* DatabaseCredentials.is_password_expired at instant t
is_password_expired(creds, t) ==
    IF creds.password_expires_at = None THEN Returns(FALSE)
    ELSE IF ~Comparable(utcnow(t), creds.password_expires_at)
         THEN Raises("TypeError")
         ELSE Returns(t > creds.password_expires_at.t)

\* whole days rounded up: a started day counts as a day
DaysRoundedUp(ticks) == IF ticks >= 0 THEN (ticks + DayLen - 1) \div DayLen
                        ELSE 0 - ((0 - ticks) \div DayLen)

\* timedelta.days: whole days, rounded towards minus infinity
Days(ticks) == IF ticks >= 0 THEN ticks \div DayLen
               ELSE 0 - ((0 - ticks + DayLen - 1) \div DayLen)

Max(a, b) == IF a >= b THEN a ELSE b

\* DatabaseCredentials.days_until_expiry at instant t
days_until_expiry(creds, t) ==
    IF creds.password_expires_at = None THEN Returns(None)
    ELSE IF ~Comparable(creds.password_expires_at, utcnow(t))
         THEN Raises("TypeError")
         ELSE Returns([kind |-> "int",
                       v |-> Max(0, Days(creds.password_expires_at.t - t))])

\* creds.model_dump(mode='json') without username, password, environment
Metadata(creds) ==
    [host |-> creds.host,
     port |-> creds.port,
     database |-> creds.database,
     options |-> creds.options,
     password_updated_at |-> Iso(creds.password_updated_at),
     password_expires_at |-> Iso(creds.password_expires_at)]


\* ---------------------------------------------------------------- backends
\* what a backend call hands back to the manager
Raised == [ret |-> "raise"]

Absent == [ret |-> "None"]

Found(username, password, metadata) ==
    [ret |-> "tuple", username |-> username, password |-> password,
     metadata |-> metadata]

\* how a call on a backend of class c can end, besides doing its work
\* ("ok"): by raising, or by catching its own failure (False / no data)
SetOutcomes(c) ==
    CASE c = "keyring" -> {"ok", "raise"}
      [] c = "environment" -> {"ok"}
      [] c = "config" -> {"ok", "false"}

GetOutcomes(c) ==
    CASE c = "keyring" -> {"ok", "raise"}
      [] c = "environment" -> {"ok"}
      [] c = "config" -> {"ok", "none"}

DeleteOutcomes(c) ==
    CASE c = "keyring" -> {"ok", "raise"}
      [] c = "environment" -> {"ok"}
      [] c = "config" -> {"ok", "false"}

\* KeyringBackend.set_credential: one JSON document per key.  Its except
\* clause names json.JSONEncodeError, which does not exist, so a failing
\* keyring call leaves the method as an exception, not as False.
KeyringSet(st, key, username, password, metadata, out) ==
    IF out = "ok"
    THEN [st |-> [st EXCEPT ![key] = [username |-> username,
                                      password |-> password,
                                      metadata |-> metadata]],
          ret |-> "True"]
    ELSE [st |-> st, ret |-> "raise"]

\* KeyringBackend.get_credential
KeyringGet(st, key, out) ==
    IF out = "raise" THEN Raised
    ELSE IF st[key] = None THEN Absent
    ELSE Found(st[key].username, st[key].password, st[key].metadata)

\* KeyringBackend.delete_credential: deleting a missing password is a
\* KeyringError, reported as False
KeyringDelete(st, key, out) ==
    IF out = "raise" THEN [st |-> st, ret |-> "raise"]
    ELSE IF st[key] = None THEN [st |-> st, ret |-> "False"]
    ELSE [st |-> [st EXCEPT ![key] = None], ret |-> "True"]

\* a set_credential without the pop of "password"
ConfigSetNoPop(st, key, username, password, metadata, out) ==
    IF out = "ok"
    THEN [st |-> [st EXCEPT ![key] = [username |-> username,
                                      metadata |-> metadata]],
          ret |-> "True"]
    ELSE [st |-> st, ret |-> "False"]

\* ConfigFileBackend.set_credential: {"username": username, **metadata}
\* without "password"; the password argument is not written;
\* _save_metadata reports a write error as False
ConfigSet(st, key, username, password, metadata, out) ==
    IF out = "ok"
    THEN [st |-> [st EXCEPT ![key] =
                     [username |-> username,
                      metadata |-> IF "password" \in DOMAIN metadata
                                   THEN DictDel(metadata, "password")
                                   ELSE metadata]],
          ret |-> "True"]
    ELSE [st |-> st, ret |-> "False"]

\* ConfigFileBackend.get_credential: an unreadable file loads as {}
ConfigGet(st, key, out) ==
    IF out = "none" THEN Absent
    ELSE IF st[key] = None THEN Absent
    ELSE Found(st[key].username, "", st[key].metadata)

\* ConfigFileBackend.delete_credential
ConfigDelete(st, key, out) ==
    IF st[key] = None THEN [st |-> st, ret |-> "True"]
    ELSE IF out = "ok" THEN [st |-> [st EXCEPT ![key] = None], ret |-> "True"]
    ELSE [st |-> st, ret |-> "False"]

\* key.split(":", 1)[1].upper()
EnvName(key) == Upper(Tail(key))

\* f"DBCREDS_{env_name}_" without the constant "DBCREDS_" in front
VarPrefix(key) == EnvName(key) \o <<"_">>

\* EnvironmentBackend.set_credential: every field through str()
EnvironmentSet(st, key, username, password, metadata, out) ==
    [st |-> [st EXCEPT ![key] =
                [username |-> username,
                 password |-> password,
                 metadata |-> [host |-> metadata.host,
                               port |-> [kind |-> "str", digits |-> metadata.port],
                               database |-> metadata.database,
                               options |-> Str(metadata.options),
                               password_updated_at |-> Str(metadata.password_updated_at),
                               password_expires_at |-> Str(metadata.password_expires_at)]]],
     ret |-> "True"]

\* EnvironmentBackend.get_credential: the variables of this key's prefix;
\* variables of a longer name under the same prefix arrive as extra fields,
\* which DatabaseCredentials ignores; port goes through int()
EnvironmentGet(st, key, out) ==
    IF st[key] = None THEN Absent
    ELSE IF st[key].username = "" \/ st[key].password = "" THEN Absent
    ELSE Found(st[key].username, st[key].password,
               [st[key].metadata EXCEPT !.port = st[key].metadata.port.digits])

\* EnvironmentBackend.delete_credential: every variable that starts with the
\* prefix, so also those of a name that continues after the prefix
EnvironmentDelete(st, key, out) ==
    [st |-> [k \in DOMAIN st |->
                IF StartsWith(VarPrefix(k), VarPrefix(key)) THEN None ELSE st[k]],
     ret |-> "True"]

\* backend.set_credential / get_credential / delete_credential by class
BackendSet(c, st, key, username, password, metadata, out) ==
    CASE c = "keyring" -> KeyringSet(st, key, username, password, metadata, out)
      [] c = "environment" -> EnvironmentSet(st, key, username, password, metadata, out)
      [] c = "config" -> ConfigSet(st, key, username, password, metadata, out)

BackendGet(c, st, key, out) ==
    CASE c = "keyring" -> KeyringGet(st, key, out)
      [] c = "environment" -> EnvironmentGet(st, key, out)
      [] c = "config" -> ConfigGet(st, key, out)

BackendDelete(c, st, key, out) ==
    CASE c = "keyring" -> KeyringDelete(st, key, out)
      [] c = "environment" -> EnvironmentDelete(st, key, out)
      [] c = "config" -> ConfigDelete(st, key, out)

\* the ways the calls of one loop over the chain can end
Outcomes(chain, allowed) ==
    { outs \in [1..Len(chain) -> {"ok", "false", "none", "raise"}] :
        \A i \in 1..Len(chain) : outs[i] \in allowed[chain[i]] }

VARIABLES
    usable,                 \* host: backend classes that can be used
    backends,               \* self.backends
    backends_initialized,   \* self._backends_initialized
    environments,           \* self.environments: name -> Environment
    environments_loaded,    \* self._environments_loaded
    environments_file,      \* environments.json
    store,                  \* per backend class: key -> stored entry
    now,                    \* the clock
    nops,                   \* number of manager calls made
    removed,                \* names removed and not added again since
    last                    \* the last manager call and how it ended

VARIABLES
    credentials,            \* a DatabaseCredentials object held by a caller
    obs                     \* the last method call on it and its result

VARIABLES
    default_recipients,     \* GPGBackend.default_recipients
    sign_key,               \* GPGBackend.sign_key
    public_keys,            \* key ids of gpg.list_keys()
    secret_keys,            \* key ids of gpg.list_keys(True)
    cred_files,             \* storage_dir: file stem -> content of <stem>.gpg
    sig_files,              \* storage_dir: file stem -> content of <stem>.gpg.sig
    gpg_last                \* the last GPGBackend call and how it ended

VARIABLES
    pc,                     \* per thread: where it is in _ensure_initialized
    cursor,                 \* per thread: index of "for backend_class in ..."
    ran_init                \* per thread: it entered _initialize_backends

VARIABLES
    clipboard,              \* the system clipboard (pyperclip.copy / paste)
    clear_timer,            \* SecureClipboard._clear_timer: a timer, 0 for None
    original_content,       \* SecureClipboard._original_content
    timers,                 \* the threading.Timer objects started so far
    copied,                 \* every value passed to copy_sensitive
    plain_calls             \* every copy_sensitive so far had a positive
                            \* timeout and restore_original at its default

VARIABLES
    monitoring,             \* ClipboardMonitor._monitoring
    monitor_thread,         \* ClipboardMonitor._monitor_thread: a thread, 0 for None
    loops,                  \* the threads started on _monitor_loop
    sensitive_patterns,     \* ClipboardMonitor._sensitive_patterns
    caller                  \* the thread that calls the monitor: idle, or in join

manager_state == <<usable, backends, backends_initialized, environments,
                   environments_loaded, environments_file, store, removed,
                   last>>

manager_vars == <<manager_state, nops>>

models_vars == <<credentials, obs>>

gpg_config == <<default_recipients, sign_key, public_keys, secret_keys>>

gpg_vars == <<gpg_config, cred_files, sig_files, gpg_last>>

thread_vars == <<pc, cursor, ran_init>>

clipboard_vars == <<clipboard, clear_timer, original_content, timers, copied,
                    plain_calls>>

monitor_vars == <<monitoring, monitor_thread, loops, sensitive_patterns,
                  caller>>

\* the state of threads that share the objects
concurrent_vars == <<thread_vars, clipboard_vars, monitor_vars>>

\* what a call on the manager leaves alone
outside_manager == <<models_vars, gpg_vars, concurrent_vars>>

vars == <<manager_vars, now, outside_manager>>

NoCall == [op |-> "none"]

\* no credential object is held outside the manager
NoModels ==
    /\ credentials = None
    /\ obs = NoCall

\* no GPG backend is constructed (the manager's chain has no GPG candidate)
NoGPG ==
    /\ default_recipients = {}
    /\ sign_key = None
    /\ public_keys = {}
    /\ secret_keys = {}
    /\ cred_files = EmptyDict
    /\ sig_files = EmptyDict
    /\ gpg_last = NoCall

\* the threads that share one manager
Threads == {"t1", "t2"}

\* no thread has made its first call on the manager
NoThreads ==
    /\ pc = [t \in Threads |-> "start"]
    /\ cursor = [t \in Threads |-> 1]
    /\ ran_init = [t \in Threads |-> FALSE]

\* a str value
Text(chars) == [kind |-> "str", s |-> chars]

\* SecureClipboard.__init__: no timer, nothing saved; the clipboard holds
\* what the user last copied
NewClipboard(content) ==
    /\ clipboard = content
    /\ clear_timer = 0
    /\ original_content = None
    /\ timers = <<>>
    /\ copied = {}
    /\ plain_calls = TRUE

\* ClipboardMonitor.__init__: not monitoring, no thread, no pattern
NewMonitor ==
    /\ monitoring = FALSE
    /\ monitor_thread = 0
    /\ loops = <<>>
    /\ sensitive_patterns = {}
    /\ caller = "idle"

NoConcurrent ==
    /\ NoThreads
    /\ NewClipboard(Text(""))
    /\ NewMonitor

\* CredentialManager.__init__ on a host on which the classes of usable work:
\* nothing heavy yet
NewManager(classes) ==
    /\ usable = classes
    /\ backends = <<>>
    /\ backends_initialized = FALSE
    /\ environments = EmptyDict
    /\ environments_loaded = FALSE
    /\ environments_file = {}
    /\ store = [c \in {"keyring", "environment", "config"} |-> EmptyStore]
    /\ nops = 0
    /\ removed = {}
    /\ last = NoCall

Init ==
    /\ \E classes \in SUBSET {"keyring", "environment", "config"} :
           NewManager(classes)
    /\ now = 0
    /\ NoModels
    /\ NoGPG
    /\ NoConcurrent

\* _ensure_initialized, first half: the chain after the call
EnsureBackends == IF backends_initialized THEN backends
                  ELSE InitializeBackends(backends, usable)

\* _ensure_initialized, second half with _load_environments: the registry
\* after the call (every stored record was validated and lowercased on write)
EnsureEnvironments ==
    IF environments_loaded THEN environments
    ELSE [n \in (DOMAIN environments) \cup { Lower(e.name) : e \in environments_file }
            |-> IF \E e \in environments_file : Lower(e.name) = n
                THEN CHOOSE e \in environments_file : Lower(e.name) = n
                ELSE environments[n]]

Initialized ==
    /\ backends' = EnsureBackends
    /\ backends_initialized' = TRUE
    /\ environments_loaded' = TRUE

\* ------------------------------------------------------- manager internals
\* a manager call as recorded in last: arguments, instant, how the backend
\* calls ended, the result (outcome: "ok" or the exception raised; cred or
\* ret: the value returned) and, for remove_environment and test_connection,
\* the statements executed in order; readd: an add_environment of a name
\* that was removed before
Call(op, env) ==
    [op |-> op, env |-> env, check |-> FALSE, t |-> now, outs |-> <<>>,
     password_expires_days |-> None, password_updated_at |-> None,
     outcome |-> "ok", msg |-> "", cred |-> None, attempted |-> <<>>,
     src |-> 0, steps |-> <<>>, ret |-> "None", readd |-> FALSE]

\* Environment(name=..., database_type=...): validate_name lowercases
Environment(name, database_type) ==
    [name |-> Lower(name), database_type |-> database_type]

\* _save_environments: environments.json gets the dump of the whole registry;
\* save_environments swallows a write error and returns False
SaveEnvironments(envs, save_ok) ==
    IF save_ok THEN { envs[n] : n \in DOMAIN envs } ELSE environments_file

\* if password_expires_days: (None and 0 are falsy)
Truthy(days) == days # None /\ days.v # 0

\* an update instant that ignores the supplied one
UpdatedAtNow(password_updated_at, t) == Datetime(t, "utc")

\* set_credentials lines 290-295: now, or the supplied instant made aware
UpdatedAt(password_updated_at, t) ==
    IF password_updated_at = None THEN Datetime(t, "utc")
    ELSE IF password_updated_at.tz = "naive"
         THEN Datetime(password_updated_at.t, "utc")
         ELSE password_updated_at

\* an expiry computed for every window that is not None, 0 included
ExpiresAtUnlessNone(updated_at, password_expires_days) ==
    IF password_expires_days # None
    THEN Datetime(updated_at.t + password_expires_days.v * DayLen, updated_at.tz)
    ELSE None

\* set_credentials lines 297-302: updated_at + timedelta(days=...)
ExpiresAt(updated_at, password_expires_days) ==
    IF Truthy(password_expires_days)
    THEN Datetime(updated_at.t + password_expires_days.v * DayLen, updated_at.tz)
    ELSE None

RECURSIVE StoreLoopFirst(_, _, _, _, _, _, _, _)
\* a store loop that stops at the first backend that accepts
StoreLoopFirst(i, chain, st, key, creds, outs, stored, attempted) ==
    IF i > Len(chain) \/ stored
    THEN [store |-> st, stored |-> stored, attempted |-> attempted]
    ELSE LET r == BackendSet(chain[i], st[chain[i]], key, creds.username,
                             creds.password, Metadata(creds), outs[i])
         IN  StoreLoopFirst(i + 1, chain, [st EXCEPT ![chain[i]] = r.st], key,
                            creds, outs, stored \/ r.ret = "True",
                            Append(attempted, i))

RECURSIVE StoreLoop(_, _, _, _, _, _, _, _)
\* set_credentials lines 317-334: for backend in self.backends, every one,
\* whatever the earlier ones did
StoreLoop(i, chain, st, key, creds, outs, stored, attempted) ==
    IF i > Len(chain)
    THEN [store |-> st, stored |-> stored, attempted |-> attempted]
    ELSE LET r == BackendSet(chain[i], st[chain[i]], key, creds.username,
                             creds.password, Metadata(creds), outs[i])
         IN  StoreLoop(i + 1, chain, [st EXCEPT ![chain[i]] = r.st], key,
                       creds, outs, stored \/ r.ret = "True",
                       Append(attempted, i))

\* an expiry test that is made whatever check_expiry says
LeavesTryAlways(check_expiry, creds, t) ==
    LET e == is_password_expired(creds, t)
    IN  e.exc # "" \/ e.ret

\* get_credentials lines 387-390: "if check_expiry and
\* creds.is_password_expired(): raise PasswordExpiredError" leaves the try
\* block with an exception, raised by the test itself or by the raise
LeavesTry(check_expiry, creds, t) ==
    /\ check_expiry
    /\ LET e == is_password_expired(creds, t)
       IN  e.exc # "" \/ e.ret

RECURSIVE ReadLoop(_, _, _, _, _, _, _, _)
\* get_credentials lines 372-401: the first backend whose data builds a
\* credential that passes the expiry check; anything raised inside the try,
\* PasswordExpiredError and the TypeError of is_password_expired included,
\* is caught by "except Exception" and the loop goes on
ReadLoop(i, chain, st, key, env_name, check_expiry, outs, t) ==
    IF i > Len(chain)
    THEN [outcome |-> "CredentialNotFoundError", msg |-> "No credentials found",
          cred |-> None, src |-> 0]
    ELSE LET result == BackendGet(chain[i], st[chain[i]], key, outs[i])
             next == ReadLoop(i + 1, chain, st, key, env_name, check_expiry,
                              outs, t)
         IN  IF result.ret # "tuple" THEN next
             ELSE LET v == DatabaseCredentials(
                              [environment |-> env_name,
                               username |-> result.username,
                               password |-> result.password,
                               host |-> result.metadata.host,
                               port |-> result.metadata.port,
                               database |-> result.metadata.database,
                               options |-> result.metadata.options,
                               password_updated_at |-> result.metadata.password_updated_at,
                               password_expires_at |-> result.metadata.password_expires_at])
                  IN  IF ~v.ok THEN next
                      ELSE IF LeavesTry(check_expiry, v.creds, t)
                           THEN next
                           ELSE [outcome |-> "ok", msg |-> "", cred |-> v.creds,
                                 src |-> i]

\* one executed statement of remove_environment
DeleteCall(i) == [do |-> "delete_credential", backend |-> i]

DelEntry == [do |-> "del self.environments[env_name]"]

SaveCall == [do |-> "_save_environments"]

RECURSIVE DeleteLoopUntilRaise(_, _, _, _, _, _)
\* a delete loop that a raising backend ends
DeleteLoopUntilRaise(i, chain, st, key, outs, steps) ==
    IF i > Len(chain) THEN [store |-> st, steps |-> steps]
    ELSE LET r == BackendDelete(chain[i], st[chain[i]], key, outs[i])
         IN  IF r.ret = "raise"
             THEN [store |-> st, steps |-> Append(steps, DeleteCall(i))]
             ELSE DeleteLoopUntilRaise(i + 1, chain,
                                       [st EXCEPT ![chain[i]] = r.st], key,
                                       outs, Append(steps, DeleteCall(i)))

RECURSIVE DeleteLoop(_, _, _, _, _, _)
\* remove_environment lines 234-239: delete from every backend, errors logged
DeleteLoop(i, chain, st, key, outs, steps) ==
    IF i > Len(chain) THEN [store |-> st, steps |-> steps]
    ELSE LET r == BackendDelete(chain[i], st[chain[i]], key, outs[i])
         IN  DeleteLoop(i + 1, chain, [st EXCEPT ![chain[i]] = r.st], key,
                        outs, Append(steps, DeleteCall(i)))

\* ---------------------------------------------------------- manager calls
\* an add_environment whose duplicate test compares the name as given
AddEnvironmentCaseSensitive(name, database_type, save_ok) ==
    LET envs == EnsureEnvironments
        c == Call("add", name)
    IN  /\ nops < MaxOps
        /\ nops' = nops + 1
        /\ Initialized
        /\ IF name \in DOMAIN envs
           THEN /\ last' = [c EXCEPT !.outcome = "CredentialError",
                                     !.msg = "already exists"]
                /\ environments' = envs
                /\ UNCHANGED <<environments_file, removed>>
           ELSE IF ~ValidName(Lower(name))
           THEN /\ last' = [c EXCEPT !.outcome = "ValidationError"]
                /\ environments' = envs
                /\ UNCHANGED <<environments_file, removed>>
           ELSE LET env == Environment(Lower(name), database_type)
                IN  /\ environments' = DictSet(envs, env.name, env)
                    /\ environments_file' =
                           SaveEnvironments(DictSet(envs, env.name, env), save_ok)
                    /\ removed' = removed \ {env.name}
                    /\ last' = [c EXCEPT !.readd = env.name \in removed]
        /\ UNCHANGED <<usable, store, now, outside_manager>>

\* CredentialManager.add_environment
AddEnvironment(name, database_type, save_ok) ==
    LET envs == EnsureEnvironments
        c == Call("add", name)
    IN  /\ nops < MaxOps
        /\ nops' = nops + 1
        /\ Initialized
        /\ IF Lower(name) \in DOMAIN envs
           THEN /\ last' = [c EXCEPT !.outcome = "CredentialError",
                                     !.msg = "already exists"]
                /\ environments' = envs
                /\ UNCHANGED <<environments_file, removed>>
           ELSE IF ~ValidName(Lower(name))
           THEN /\ last' = [c EXCEPT !.outcome = "ValidationError"]
                /\ environments' = envs
                /\ UNCHANGED <<environments_file, removed>>
           ELSE LET env == Environment(Lower(name), database_type)
                IN  /\ environments' = DictSet(envs, env.name, env)
                    /\ environments_file' =
                           SaveEnvironments(DictSet(envs, env.name, env), save_ok)
                    /\ removed' = removed \ {env.name}
                    /\ last' = [c EXCEPT !.readd = env.name \in removed]
        /\ UNCHANGED <<usable, store, now, outside_manager>>

\* CredentialManager.remove_environment
RemoveEnvironment(name, outs, save_ok) ==
    LET envs == EnsureEnvironments
        chain == EnsureBackends
        env_name == Lower(name)
        c == [Call("remove", name) EXCEPT !.outs = outs]
    IN  /\ nops < MaxOps
        /\ nops' = nops + 1
        /\ Initialized
        /\ outs \in Outcomes(chain, [b \in {"keyring", "environment", "config"} |-> DeleteOutcomes(b)])
        /\ IF env_name \notin DOMAIN envs
           THEN /\ last' = [c EXCEPT !.outcome = "CredentialNotFoundError",
                                     !.msg = "Environment not found"]
                /\ environments' = envs
                /\ UNCHANGED <<environments_file, removed, store>>
           ELSE LET w == DeleteLoop(1, chain, store, StorageKey(env_name),
                                    outs, <<>>)
                IN  /\ store' = w.store
                    /\ environments' = DictDel(envs, env_name)
                    /\ environments_file' =
                           SaveEnvironments(DictDel(envs, env_name), save_ok)
                    /\ removed' = removed \cup {env_name}
                    /\ last' = [c EXCEPT !.steps = w.steps \o <<DelEntry, SaveCall>>]
        /\ UNCHANGED <<usable, now, outside_manager>>

\* a set_credentials that writes to the chain before it resolves the name
SetCredentialsUnresolved(environment, p, password_expires_days, password_updated_at, outs) ==
    LET envs == EnsureEnvironments
        chain == EnsureBackends
        env_name == Lower(environment)
        c == [Call("set", environment) EXCEPT
                  !.outs = outs,
                  !.password_expires_days = password_expires_days,
                  !.password_updated_at = password_updated_at]
        updated_at == UpdatedAt(password_updated_at, now)
        v == DatabaseCredentials(
                 [environment |-> env_name, host |-> p.host, port |-> p.port,
                  database |-> p.database, username |-> p.username,
                  password |-> p.password, options |-> Options,
                  password_updated_at |-> updated_at,
                  password_expires_at |->
                      ExpiresAt(updated_at, password_expires_days)])
        w == StoreLoop(1, chain, store, StorageKey(env_name), v.creds, outs,
                       FALSE, <<>>)
    IN  /\ nops < MaxOps
        /\ nops' = nops + 1
        /\ Initialized
        /\ outs \in Outcomes(chain, [b \in {"keyring", "environment", "config"} |-> SetOutcomes(b)])
        /\ environments' = envs
        /\ IF env_name \notin DOMAIN envs
           THEN /\ last' = [c EXCEPT !.outcome = "CredentialNotFoundError",
                                     !.msg = "Environment not found"]
                /\ store' = w.store
           ELSE IF ~v.ok
           THEN /\ last' = [c EXCEPT !.outcome = "ValidationError"]
                /\ UNCHANGED store
           ELSE /\ store' = w.store
                /\ last' = IF w.stored
                           THEN [c EXCEPT !.cred = v.creds,
                                          !.attempted = w.attempted]
                           ELSE [c EXCEPT !.outcome = "CredentialError",
                                          !.msg = "Failed to store credentials in any backend",
                                          !.attempted = w.attempted]
        /\ UNCHANGED <<usable, environments_file, removed, now, outside_manager>>

\* CredentialManager.set_credentials
SetCredentials(environment, p, password_expires_days, password_updated_at, outs) ==
    LET envs == EnsureEnvironments
        chain == EnsureBackends
        env_name == Lower(environment)
        c == [Call("set", environment) EXCEPT
                  !.outs = outs,
                  !.password_expires_days = password_expires_days,
                  !.password_updated_at = password_updated_at]
        updated_at == UpdatedAt(password_updated_at, now)
        v == DatabaseCredentials(
                 [environment |-> env_name, host |-> p.host, port |-> p.port,
                  database |-> p.database, username |-> p.username,
                  password |-> p.password, options |-> Options,
                  password_updated_at |-> updated_at,
                  password_expires_at |->
                      ExpiresAt(updated_at, password_expires_days)])
        w == StoreLoop(1, chain, store, StorageKey(env_name), v.creds, outs,
                       FALSE, <<>>)
    IN  /\ nops < MaxOps
        /\ nops' = nops + 1
        /\ Initialized
        /\ outs \in Outcomes(chain, [b \in {"keyring", "environment", "config"} |-> SetOutcomes(b)])
        /\ environments' = envs
        /\ IF env_name \notin DOMAIN envs
           THEN /\ last' = [c EXCEPT !.outcome = "CredentialNotFoundError",
                                     !.msg = "Environment not found"]
                /\ UNCHANGED store
           ELSE IF ~v.ok
           THEN /\ last' = [c EXCEPT !.outcome = "ValidationError"]
                /\ UNCHANGED store
           ELSE /\ store' = w.store
                /\ last' = IF w.stored
                           THEN [c EXCEPT !.cred = v.creds,
                                          !.attempted = w.attempted]
                           ELSE [c EXCEPT !.outcome = "CredentialError",
                                          !.msg = "Failed to store credentials in any backend",
                                          !.attempted = w.attempted]
        /\ UNCHANGED <<usable, environments_file, removed, now, outside_manager>>

\* CredentialManager.get_credentials
GetCredentials(environment, check_expiry, outs) ==
    LET envs == EnsureEnvironments
        chain == EnsureBackends
        env_name == Lower(environment)
        c == [Call("get", environment) EXCEPT !.outs = outs,
                                              !.check = check_expiry]
        r == ReadLoop(1, chain, store, StorageKey(env_name), env_name,
                      check_expiry, outs, now)
    IN  /\ nops < MaxOps
        /\ nops' = nops + 1
        /\ Initialized
        /\ outs \in Outcomes(chain, [b \in {"keyring", "environment", "config"} |-> GetOutcomes(b)])
        /\ environments' = envs
        /\ last' = IF env_name \notin DOMAIN envs
                   THEN [c EXCEPT !.outcome = "CredentialNotFoundError",
                                  !.msg = "Environment not found"]
                   ELSE [c EXCEPT !.outcome = r.outcome, !.msg = r.msg,
                                  !.cred = r.cred, !.src = r.src]
        /\ UNCHANGED <<usable, environments_file, removed, store, now, outside_manager>>

\* the driver calls of test_connection
ConnectCall == [do |-> "psycopg2.connect"]

CloseCall == [do |-> "conn.close"]

\* CredentialManager.test_connection; driver: how psycopg2.connect ends
TestConnection(environment, outs, driver) ==
    LET envs == EnsureEnvironments
        chain == EnsureBackends
        env_name == Lower(environment)
        c == [Call("test_connection", environment) EXCEPT !.outs = outs,
                                                          !.check = TRUE]
        r == ReadLoop(1, chain, store, StorageKey(env_name), env_name, TRUE,
                      outs, now)
    IN  /\ nops < MaxOps
        /\ nops' = nops + 1
        /\ Initialized
        /\ outs \in Outcomes(chain, [b \in {"keyring", "environment", "config"} |-> GetOutcomes(b)])
        /\ driver \in {"ok", "raise"}
        /\ environments' = envs
        /\ last' = IF env_name \notin DOMAIN envs \/ r.outcome # "ok"
                   THEN [c EXCEPT !.ret = "False"]
                   ELSE IF envs[env_name].database_type = "postgresql"
                   THEN IF driver = "ok"
                        THEN [c EXCEPT !.cred = r.cred, !.src = r.src,
                                       !.steps = <<ConnectCall, CloseCall>>,
                                       !.ret = "True"]
                        ELSE [c EXCEPT !.cred = r.cred, !.src = r.src,
                                       !.steps = <<ConnectCall>>,
                                       !.ret = "False"]
                   ELSE [c EXCEPT !.cred = r.cred, !.src = r.src]
        /\ UNCHANGED <<usable, environments_file, removed, store, now, outside_manager>>

\* ------------------------------------------------------------------ inputs
\* (host, port, database, username, password) as callers supply them
Payloads ==
    { [host |-> "h1", port |-> 5432, database |-> "db1", username |-> "u1",
       password |-> "pw1"],
      [host |-> "h2", port |-> 3306, database |-> "db2", username |-> "u2",
       password |-> "pw2"] }

OnePayload ==
    { [host |-> "h1", port |-> 5432, database |-> "db1", username |-> "u1",
       password |-> "pw1"] }

Int_(n) == [kind |-> "int", v |-> n]

\* (password_expires_days, password_updated_at): no expiry, 0 days, one day
\* from now, a negative window, one day from an instant one day ago given
\* naive or aware
Lifecycles ==
    { <<None, None>>, <<Int_(0), None>>, <<Int_(1), None>>,
      <<Int_(0 - 1), None>>,
      <<Int_(1), Datetime(0 - DayLen, "naive")>>,
      <<Int_(1), Datetime(0 - DayLen, "utc")>> }

\* the writes callers make: one payload under every lifecycle, and a second
\* payload without expiry
Writes ==
    { <<p, lc>> : p \in OnePayload, lc \in Lifecycles }
    \cup { <<p, <<None, None>>>> : p \in Payloads }

\* the wall clock advances
Tick ==
    /\ now < MaxTime
    /\ now' = now + 1
    /\ UNCHANGED <<manager_vars, outside_manager>>

\* one environment, every write and backend failure
Next ==
    \/ Tick
    \/ \E name \in OneName, database_type \in DatabaseTypes :
           AddEnvironment(name, database_type, TRUE)
    \/ \E name \in OneName :
           \E outs \in Outcomes(EnsureBackends, [b \in {"keyring", "environment", "config"} |-> DeleteOutcomes(b)]) :
               RemoveEnvironment(name, outs, TRUE)
    \/ \E environment \in OneName, w \in Writes :
           \E outs \in Outcomes(EnsureBackends, [b \in {"keyring", "environment", "config"} |-> SetOutcomes(b)]) :
               SetCredentials(environment, w[1], w[2][1], w[2][2], outs)
    \/ \E environment \in OneName, check_expiry \in BOOLEAN :
           \E outs \in Outcomes(EnsureBackends, [b \in {"keyring", "environment", "config"} |-> GetOutcomes(b)]) :
               GetCredentials(environment, check_expiry, outs)

Spec == Init /\ [][Next]_vars

\* every name, one payload without expiry, every backend failure
NextNames ==
    \/ Tick
    \/ \E name \in NewNames, database_type \in DatabaseTypes, save_ok \in BOOLEAN :
           AddEnvironment(name, database_type, save_ok)
    \/ \E name \in Names, save_ok \in BOOLEAN :
           \E outs \in Outcomes(EnsureBackends, [b \in {"keyring", "environment", "config"} |-> DeleteOutcomes(b)]) :
               RemoveEnvironment(name, outs, save_ok)
    \/ \E environment \in Names, p \in OnePayload :
           \E outs \in Outcomes(EnsureBackends, [b \in {"keyring", "environment", "config"} |-> SetOutcomes(b)]) :
               SetCredentials(environment, p, None, None, outs)
    \/ \E environment \in Names :
           \E outs \in Outcomes(EnsureBackends, [b \in {"keyring", "environment", "config"} |-> GetOutcomes(b)]) :
               GetCredentials(environment, TRUE, outs)

SpecNames == Init /\ [][NextNames]_vars

\* one environment of any database type, written with and without an
\* expiry that has passed, and connection tests
NextConnect ==
    \/ \E name \in OneName, database_type \in AllDatabaseTypes :
           AddEnvironment(name, database_type, TRUE)
    \/ \E environment \in OneName, p \in OnePayload,
          password_expires_days \in { None, Int_(0 - 1) } :
           \E outs \in Outcomes(EnsureBackends, [b \in {"keyring", "environment", "config"} |-> SetOutcomes(b)]) :
               SetCredentials(environment, p, password_expires_days, None, outs)
    \/ \E environment \in { <<"d">>, <<"D">> }, driver \in {"ok", "raise"} :
           \E outs \in Outcomes(EnsureBackends, [b \in {"keyring", "environment", "config"} |-> GetOutcomes(b)]) :
               TestConnection(environment, outs, driver)

SpecConnect == Init /\ [][NextConnect]_vars

\* a manager constructed over the environments.json that an earlier run
\* saved after add_environment("d", POSTGRESQL)
InitSaved ==
    /\ \E classes \in SUBSET {"keyring", "environment", "config"} :
           /\ usable = classes
           /\ backends = <<>>
           /\ backends_initialized = FALSE
           /\ environments = EmptyDict
           /\ environments_loaded = FALSE
           /\ environments_file = { Environment(<<"d">>, "postgresql") }
           /\ store = [c \in {"keyring", "environment", "config"} |-> EmptyStore]
           /\ nops = 0
           /\ removed = {}
           /\ last = NoCall
    /\ now = 0
    /\ NoModels
    /\ NoGPG
    /\ NoConcurrent

\* one saved environment: written, removed, added again and read
NextSaved ==
    \/ \E name \in OneName, database_type \in DatabaseTypes :
           AddEnvironment(name, database_type, TRUE)
    \/ \E name \in OneName :
           \E outs \in Outcomes(EnsureBackends, [b \in {"keyring", "environment", "config"} |-> DeleteOutcomes(b)]) :
               RemoveEnvironment(name, outs, TRUE)
    \/ \E environment \in OneName, p \in OnePayload :
           \E outs \in Outcomes(EnsureBackends, [b \in {"keyring", "environment", "config"} |-> SetOutcomes(b)]) :
               SetCredentials(environment, p, None, None, outs)
    \/ \E environment \in OneName, check_expiry \in BOOLEAN :
           \E outs \in Outcomes(EnsureBackends, [b \in {"keyring", "environment", "config"} |-> GetOutcomes(b)]) :
               GetCredentials(environment, check_expiry, outs)

SpecSaved == InitSaved /\ [][NextSaved]_vars

\* ------------------------------------------------- the credential model
\* expiry instants from two days before the first instant to two days after
\* the last one
ExpiryInstants == (0 - 2 * DayLen)..(MaxTime + 2 * DayLen)

\* DatabaseCredentials(..., password_expires_at=...) as a caller builds it:
\* no expiry, or an expiry given as a naive or as an aware datetime
CredentialsUnderTest ==
    { DatabaseCredentials(
          [environment |-> <<"d">>, host |-> "h1", port |-> 5432,
           database |-> "db1", username |-> "u1", password |-> "pw1",
           options |-> Options,
           password_updated_at |-> utcnow(0),
           password_expires_at |-> e]).creds :
      e \in {None} \cup { Datetime(t, tz) : t \in ExpiryInstants,
                                            tz \in {"naive", "utc"} } }

\* a caller holds one credential object; the manager is not used
InitModels ==
    /\ NewManager({})
    /\ now = 0
    /\ credentials \in CredentialsUnderTest
    /\ obs = NoCall
    /\ NoGPG
    /\ NoConcurrent

\* creds.is_password_expired()
IsPasswordExpired ==
    /\ obs' = [op |-> "is_password_expired", t |-> now,
               result |-> is_password_expired(credentials, now)]
    /\ UNCHANGED <<manager_vars, now, credentials, gpg_vars, concurrent_vars>>

\* creds.days_until_expiry()
DaysUntilExpiry ==
    /\ obs' = [op |-> "days_until_expiry", t |-> now,
               result |-> days_until_expiry(credentials, now)]
    /\ UNCHANGED <<manager_vars, now, credentials, gpg_vars, concurrent_vars>>

NextModels ==
    \/ Tick
    \/ IsPasswordExpired
    \/ DaysUntilExpiry

SpecModels == InitModels /\ [][NextModels]_vars

\* ---------------------------------------------------- the lifecycle states
\* "elif days <= 14": the window in which a password is expiring soon
ExpiringSoonDays == 14

\* expiry instants from two days before the first instant to beyond the
\* expiring-soon window after the last one
LifecycleInstants == (0 - 2 * DayLen)..(MaxTime + (ExpiringSoonDays + 2) * DayLen)

LifecycleCredentials ==
    { DatabaseCredentials(
          [environment |-> <<"d">>, host |-> "h1", port |-> 5432,
           database |-> "db1", username |-> "u1", password |-> "pw1",
           options |-> Options,
           password_updated_at |-> utcnow(0),
           password_expires_at |-> e]).creds :
      e \in {None} \cup { Datetime(t, tz) : t \in LifecycleInstants,
                                            tz \in {"naive", "utc"} } }

InitLifecycle ==
    /\ NewManager({})
    /\ now = 0
    /\ credentials \in LifecycleCredentials
    /\ obs = NoCall
    /\ NoGPG
    /\ NoConcurrent

\* the two calls from which a caller derives the expiry status of a
\* credential: creds.is_password_expired() and creds.days_until_expiry()
ExpiryStatus ==
    /\ obs' = [op |-> "expiry_status", t |-> now,
               expired |-> is_password_expired(credentials, now),
               days |-> days_until_expiry(credentials, now)]
    /\ UNCHANGED <<manager_vars, now, credentials, gpg_vars, concurrent_vars>>

NextLifecycle ==
    \/ Tick
    \/ ExpiryStatus

SpecLifecycle == InitLifecycle /\ [][NextLifecycle]_vars

\* ----------------------------------------------------------- GPG backend
\* c.isalnum() or c in "-_"
IsSafeChar(c) == c \in {"k", "d", "t", "-", "_"}

\* _get_credential_path: the stem of the file, every other character
\* replaced by "_"
get_credential_path(key) ==
    [i \in 1..Len(key) |-> IF IsSafeChar(key[i]) THEN key[i] ELSE "_"]

\* the keys callers pass to the GPG backend
GPGKeys == { <<"k", ":", "d">>, <<"k", ":", "t">> }

\* every file stem the keys can give, in sorted order
AllStems == << <<"k", "_", "d">>, <<"k", "_", "t">> >>

\* (username, password, metadata) as callers supply them
GPGPayloads ==
    { [username |-> "u1", password |-> "pw1", metadata |-> [host |-> "h1"]],
      [username |-> "u2", password |-> "pw2", metadata |-> [host |-> "h2"]] }

\* json.dumps({"username": username, "password": password, **metadata})
JsonDumps(username, password, metadata) ==
    [kind |-> "json", username |-> username, password |-> password,
     metadata |-> metadata]

\* gpg.encrypt(data, recipients): fails when a recipient's public key is
\* not in the keyring
Encrypt(data, recipients, publics) ==
    IF recipients \subseteq publics
    THEN [ok |-> TRUE, data |-> [kind |-> "pgp", plain |-> data, to |-> recipients]]
    ELSE [ok |-> FALSE]

\* gpg.decrypt(data): needs intact ciphertext and the secret key of one of
\* its recipients
Decrypt(data, secrets) ==
    IF data.kind = "pgp" /\ data.to \cap secrets # {}
    THEN [ok |-> TRUE, plain |-> data.plain]
    ELSE [ok |-> FALSE]

\* gpg.sign(data, keyid=..., detach=True): a detached signature of data
Sign(data, keyid) == [kind |-> "sig", of |-> data, by |-> keyid]

\* gpg.verify_data(signature, data): valid when the signature is one of data
VerifyData(signature, data) == [valid |-> signature.of = data]

\* ciphertext changed on disk by someone else
Tampered == [kind |-> "tampered"]

\* what GPGBackend.get_credential gives its caller: ret is the value
\* returned, exc the exception that leaves the method, caught the exception
\* raised and handled inside it, checked whether the signature was verified
GPGNone(checked, caught) ==
    [ret |-> "None", exc |-> "", caught |-> caught, checked |-> checked]

GPGTuple(plain, checked) ==
    [ret |-> "tuple", exc |-> "", caught |-> "", checked |-> checked,
     username |-> plain.username, password |-> plain.password,
     metadata |-> plain.metadata]

\* GPGBackend.get_credential
GPGGet(files, sigs, key, signing, secrets) ==
    LET path == get_credential_path(key)
    IN  IF path \notin DOMAIN files THEN GPGNone(FALSE, "")
        ELSE LET encrypted_data == files[path]
                 checked == path \in DOMAIN sigs /\ signing # None
             IN  IF checked /\ ~VerifyData(sigs[path], encrypted_data).valid
                 THEN GPGNone(TRUE, "SecurityError")
                 ELSE LET decrypted == Decrypt(encrypted_data, secrets)
                      IN  IF ~decrypted.ok THEN GPGNone(checked, "")
                          ELSE GPGTuple(decrypted.plain, checked)

\* a list of key ids as an argument
KeyIds(ids) == [kind |-> "list", ids |-> ids]

\* recipients or self.default_recipients: None and [] are falsy
Recipients(recipients, defaults) ==
    IF recipients = None THEN defaults
    ELSE IF recipients.ids = {} THEN defaults
    ELSE recipients.ids

\* GPGBackend.set_credential; sign_ok: gpg.sign gave a signature
GPGSet(files, sigs, key, username, password, metadata, recipients, defaults, signing, publics, sign_ok) ==
    LET json_data == JsonDumps(username, password, metadata)
        to == Recipients(recipients, defaults)
        encrypted == Encrypt(json_data, to, publics)
        path == get_credential_path(key)
    IN  IF to = {} THEN [files |-> files, sigs |-> sigs, ret |-> "False"]
        ELSE IF ~encrypted.ok THEN [files |-> files, sigs |-> sigs, ret |-> "False"]
        ELSE [files |-> DictSet(files, path, encrypted.data),
              sigs |-> IF signing # None /\ sign_ok
                       THEN DictSet(sigs, path, Sign(json_data, signing))
                       ELSE sigs,
              ret |-> "True"]

\* GPGBackend.delete_credential
GPGDelete(files, sigs, key) ==
    LET path == get_credential_path(key)
    IN  [files |-> DictDel(files, path),
         sigs |-> DictDel(sigs, path),
         ret |-> IF path \in DOMAIN files THEN "True" ELSE "False"]

\* GPGBackend.list_credentials: the stems of *.gpg, sorted
list_credentials(files) == SelectSeq(AllStems, LAMBDA stem : stem \in DOMAIN files)

\* what rotate_keys has done so far
RotationStart(files, sigs) ==
    [files |-> files, sigs |-> sigs, success_count |-> 0, fail_count |-> 0,
     processed |-> <<>>, rotated |-> {}, before |-> EmptyDict]

RECURSIVE RotateLoopUntilFailure(_, _, _, _, _, _, _, _, _)
\* a rotation that a failed key ends
RotateLoopUntilFailure(i, keys, acc, new_recipients, defaults, signing, publics, secrets, sign_ok) ==
    IF i > Len(keys) \/ acc.fail_count > 0 THEN acc
    ELSE LET key == keys[i]
             result == GPGGet(acc.files, acc.sigs, key, signing, secrets)
             seen == [acc EXCEPT !.processed = Append(@, key),
                                 !.before = DictSet(@, key, result)]
         IN  IF result.ret # "tuple"
             THEN RotateLoopUntilFailure(i + 1, keys,
                      [seen EXCEPT !.fail_count = @ + 1],
                      new_recipients, defaults, signing, publics, secrets,
                      sign_ok)
             ELSE LET w == GPGSet(acc.files, acc.sigs, key, result.username,
                                  result.password, result.metadata,
                                  new_recipients, defaults, signing, publics,
                                  sign_ok)
                  IN  RotateLoopUntilFailure(i + 1, keys,
                          IF w.ret = "True"
                          THEN [seen EXCEPT !.files = w.files, !.sigs = w.sigs,
                                            !.success_count = @ + 1,
                                            !.rotated = @ \cup {key}]
                          ELSE [seen EXCEPT !.fail_count = @ + 1],
                          new_recipients, defaults, signing, publics, secrets,
                          sign_ok)

RECURSIVE RotateLoop(_, _, _, _, _, _, _, _, _)
\* rotate_keys lines 269-284: for key in self.list_credentials(), a failed
\* key is counted and the loop continues
RotateLoop(i, keys, acc, new_recipients, defaults, signing, publics, secrets, sign_ok) ==
    IF i > Len(keys) THEN acc
    ELSE LET key == keys[i]
             result == GPGGet(acc.files, acc.sigs, key, signing, secrets)
             seen == [acc EXCEPT !.processed = Append(@, key),
                                 !.before = DictSet(@, key, result)]
         IN  IF result.ret # "tuple"
             THEN RotateLoop(i + 1, keys, [seen EXCEPT !.fail_count = @ + 1],
                             new_recipients, defaults, signing, publics,
                             secrets, sign_ok)
             ELSE LET w == GPGSet(acc.files, acc.sigs, key, result.username,
                                  result.password, result.metadata,
                                  new_recipients, defaults, signing, publics,
                                  sign_ok)
                  IN  RotateLoop(i + 1, keys,
                          IF w.ret = "True"
                          THEN [seen EXCEPT !.files = w.files, !.sigs = w.sigs,
                                            !.success_count = @ + 1,
                                            !.rotated = @ \cup {key}]
                          ELSE [seen EXCEPT !.fail_count = @ + 1],
                          new_recipients, defaults, signing, publics, secrets,
                          sign_ok)

\* a GPGBackend call as recorded in gpg_last
GPGCall(op, key) == [op |-> op, key |-> key, result |-> None]

\* GPGBackend(default_recipients=..., sign_key=...) over a gpg home with
\* some public and secret keys; _verify_setup has passed, so the signing key
\* is one of the secret keys
InitGPG ==
    /\ NewManager({})
    /\ now = 0
    /\ NoModels
    /\ NoConcurrent
    /\ default_recipients \in { {}, {"A"} }
    /\ sign_key \in { None, [kind |-> "keyid", id |-> "A"] }
    /\ public_keys \in { {"A"}, {"A", "B"} }
    /\ secret_keys \in { {"A"}, {"A", "B"} }
    /\ cred_files = EmptyDict
    /\ sig_files = EmptyDict
    /\ gpg_last = NoCall

\* backend.set_credential(key, username, password, metadata, recipients)
GPGSetCredential(key, p, recipients, sign_ok) ==
    LET w == GPGSet(cred_files, sig_files, key, p.username, p.password,
                    p.metadata, recipients, default_recipients, sign_key,
                    public_keys, sign_ok)
    IN  /\ nops < MaxOps
        /\ nops' = nops + 1
        /\ cred_files' = w.files
        /\ sig_files' = w.sigs
        /\ gpg_last' = [GPGCall("set_credential", key) EXCEPT
                            !.result = [ret |-> w.ret, exc |-> ""]]
        /\ UNCHANGED <<manager_state, now, models_vars, concurrent_vars, gpg_config>>

\* backend.get_credential(key)
GPGGetCredential(key) ==
    /\ nops < MaxOps
    /\ nops' = nops + 1
    /\ gpg_last' = [GPGCall("get_credential", key) EXCEPT
                        !.result = GPGGet(cred_files, sig_files, key, sign_key,
                                          secret_keys)]
    /\ UNCHANGED <<manager_state, now, models_vars, concurrent_vars, gpg_config, cred_files,
                   sig_files>>

\* backend.delete_credential(key)
GPGDeleteCredential(key) ==
    LET w == GPGDelete(cred_files, sig_files, key)
    IN  /\ nops < MaxOps
        /\ nops' = nops + 1
        /\ cred_files' = w.files
        /\ sig_files' = w.sigs
        /\ gpg_last' = [GPGCall("delete_credential", key) EXCEPT
                            !.result = [ret |-> w.ret, exc |-> ""]]
        /\ UNCHANGED <<manager_state, now, models_vars, concurrent_vars, gpg_config>>

\* backend.rotate_keys(old_recipients, new_recipients); old_recipients is
\* not used by the code
GPGRotateKeys(old_recipients, new_recipients, sign_ok) ==
    LET w == RotateLoop(1, list_credentials(cred_files),
                        RotationStart(cred_files, sig_files), new_recipients,
                        default_recipients, sign_key, public_keys,
                        secret_keys, sign_ok)
    IN  /\ nops < MaxOps
        /\ nops' = nops + 1
        /\ cred_files' = w.files
        /\ sig_files' = w.sigs
        /\ gpg_last' = [op |-> "rotate_keys", key |-> <<>>,
                        new_recipients |-> new_recipients,
                        stored |-> list_credentials(cred_files),
                        processed |-> w.processed,
                        rotated |-> w.rotated,
                        before |-> w.before,
                        success_count |-> w.success_count,
                        fail_count |-> w.fail_count,
                        result |-> [ret |-> IF w.fail_count = 0 THEN "True"
                                            ELSE "False",
                                    exc |-> ""]]
        /\ UNCHANGED <<manager_state, now, models_vars, concurrent_vars, gpg_config>>

\* someone else overwrites the ciphertext of a stored credential
Tamper(stem) ==
    /\ stem \in DOMAIN cred_files
    /\ cred_files[stem] # Tampered
    /\ cred_files' = [cred_files EXCEPT ![stem] = Tampered]
    /\ UNCHANGED <<manager_vars, now, models_vars, concurrent_vars, gpg_config, sig_files,
                   gpg_last>>

NextGPG ==
    \/ \E key \in GPGKeys, p \in GPGPayloads,
          recipients \in { None, KeyIds({"B"}) }, sign_ok \in BOOLEAN :
           GPGSetCredential(key, p, recipients, sign_ok)
    \/ \E key \in GPGKeys : GPGGetCredential(key)
    \/ \E key \in GPGKeys : GPGDeleteCredential(key)
    \/ \E new_recipients \in { KeyIds({}), KeyIds({"B"}) }, sign_ok \in BOOLEAN :
           GPGRotateKeys(KeyIds({"A"}), new_recipients, sign_ok)
    \/ \E i \in 1..Len(AllStems) : Tamper(AllStems[i])

SpecGPG == InitGPG /\ [][NextGPG]_vars

\* ------------------------------------------------- the config-file backend
\* the keys and metadata callers pass to the backend directly: metadata as
\* the manager dumps it, and the same with a "password" entry
ConfigKeys == { StorageKey(<<"d">>), StorageKey(<<"d", "_", "t">>) }

ConfigMetadata ==
    { [host |-> "h1", port |-> 5432, database |-> "db1", options |-> Options,
       password_updated_at |-> Iso(Datetime(0, "utc")),
       password_expires_at |-> None],
      [host |-> "h1", port |-> 5432, database |-> "db1", options |-> Options,
       password_updated_at |-> Iso(Datetime(0, "utc")),
       password_expires_at |-> None, password |-> "pw1"] }

\* a ConfigFileBackend call as recorded in last
ConfigCall(op, key, out) == [op |-> op, key |-> key, out |-> out]

\* ConfigFileBackend().set_credential(key, username, password, metadata)
ConfigSetCredential(key, username, password, metadata, out) ==
    LET w == ConfigSet(store["config"], key, username, password, metadata, out)
        c == ConfigCall("config.set_credential", key, out)
    IN  /\ nops < MaxOps
        /\ nops' = nops + 1
        /\ store' = [store EXCEPT !["config"] = w.st]
        /\ last' = [op |-> c.op, key |-> c.key, out |-> c.out,
                    metadata |-> metadata, result |-> [ret |-> w.ret]]
        /\ UNCHANGED <<usable, backends, backends_initialized, environments,
                       environments_loaded, environments_file, removed, now,
                       outside_manager>>

\* ConfigFileBackend().get_credential(key)
ConfigGetCredential(key, out) ==
    LET c == ConfigCall("config.get_credential", key, out)
    IN  /\ nops < MaxOps
        /\ nops' = nops + 1
        /\ last' = [op |-> c.op, key |-> c.key, out |-> c.out,
                    metadata |-> None,
                    result |-> ConfigGet(store["config"], key, out)]
        /\ UNCHANGED <<usable, backends, backends_initialized, environments,
                       environments_loaded, environments_file, removed, store,
                       now, outside_manager>>

\* ConfigFileBackend().delete_credential(key)
ConfigDeleteCredential(key, out) ==
    LET w == ConfigDelete(store["config"], key, out)
        c == ConfigCall("config.delete_credential", key, out)
    IN  /\ nops < MaxOps
        /\ nops' = nops + 1
        /\ store' = [store EXCEPT !["config"] = w.st]
        /\ last' = [op |-> c.op, key |-> c.key, out |-> c.out,
                    metadata |-> None, result |-> [ret |-> w.ret]]
        /\ UNCHANGED <<usable, backends, backends_initialized, environments,
                       environments_loaded, environments_file, removed, now,
                       outside_manager>>

\* the backend used on its own, as the fallback chain uses it
NextConfig ==
    \/ \E key \in ConfigKeys, username \in {"u1", "u2"}, password \in {"pw1"},
          metadata \in ConfigMetadata, out \in SetOutcomes("config") :
           ConfigSetCredential(key, username, password, metadata, out)
    \/ \E key \in ConfigKeys, out \in GetOutcomes("config") :
           ConfigGetCredential(key, out)
    \/ \E key \in ConfigKeys, out \in DeleteOutcomes("config") :
           ConfigDeleteCredential(key, out)

SpecConfig == Init /\ [][NextConfig]_vars

\* ------------------------------------------- concurrent first use (threads)
\* an append that skips a backend the list already holds
AppendBackendOnce(list, backend) ==
    IF \E i \in 1..Len(list) : list[i] = backend THEN list
    ELSE Append(list, backend)

\* self.backends.append(backend)
AppendBackend(list, backend) == Append(list, backend)

\* _ensure_initialized line 88: if not self._backends_initialized
BackendsGuard(t) ==
    /\ pc[t] = "start"
    /\ IF backends_initialized
       THEN /\ pc' = [pc EXCEPT ![t] = "environments_guard"]
            /\ UNCHANGED ran_init
       ELSE /\ pc' = [pc EXCEPT ![t] = "for"]
            /\ ran_init' = [ran_init EXCEPT ![t] = TRUE]
    /\ UNCHANGED <<manager_vars, now, models_vars, gpg_vars, clipboard_vars,
                   monitor_vars, cursor>>

\* _initialize_backends lines 137-144: one turn of the loop over the
\* candidate classes
InitLoopStep(t) ==
    /\ pc[t] = "for"
    /\ IF cursor[t] > Len(BackendClasses)
       THEN /\ pc' = [pc EXCEPT ![t] = "fallback"]
            /\ UNCHANGED <<backends, cursor>>
       ELSE /\ backends' = IF BackendClasses[cursor[t]] \in usable
                           THEN AppendBackend(backends, BackendClasses[cursor[t]])
                           ELSE backends
            /\ cursor' = [cursor EXCEPT ![t] = @ + 1]
            /\ UNCHANGED pc
    /\ UNCHANGED <<usable, backends_initialized, environments,
                   environments_loaded, environments_file, store, removed,
                   last, nops, now, models_vars, gpg_vars, clipboard_vars,
                   monitor_vars, ran_init>>

\* _initialize_backends lines 146-151: if not self.backends: append the
\* config-file backend
FallbackStep(t) ==
    /\ pc[t] = "fallback"
    /\ backends' = IF backends = <<>> THEN AppendBackend(backends, "config")
                   ELSE backends
    /\ pc' = [pc EXCEPT ![t] = "set_flag"]
    /\ UNCHANGED <<usable, backends_initialized, environments,
                   environments_loaded, environments_file, store, removed,
                   last, nops, now, models_vars, gpg_vars, clipboard_vars,
                   monitor_vars, cursor, ran_init>>

\* _ensure_initialized line 91: self._backends_initialized = True
SetBackendsFlag(t) ==
    /\ pc[t] = "set_flag"
    /\ backends_initialized' = TRUE
    /\ pc' = [pc EXCEPT ![t] = "environments_guard"]
    /\ UNCHANGED <<usable, backends, environments, environments_loaded,
                   environments_file, store, removed, last, nops, now,
                   models_vars, gpg_vars, clipboard_vars,
                   monitor_vars, cursor, ran_init>>

\* _ensure_initialized line 93: if not self._environments_loaded
EnvironmentsGuard(t) ==
    /\ pc[t] = "environments_guard"
    /\ pc' = [pc EXCEPT ![t] = IF environments_loaded THEN "done" ELSE "load"]
    /\ UNCHANGED <<manager_vars, now, models_vars, gpg_vars, clipboard_vars,
                   monitor_vars, cursor, ran_init>>

\* _ensure_initialized lines 94-95: _load_environments, then the flag
LoadEnvironments(t) ==
    /\ pc[t] = "load"
    /\ environments' =
           [n \in (DOMAIN environments) \cup { Lower(e.name) : e \in environments_file }
               |-> IF \E e \in environments_file : Lower(e.name) = n
                   THEN CHOOSE e \in environments_file : Lower(e.name) = n
                   ELSE environments[n]]
    /\ environments_loaded' = TRUE
    /\ pc' = [pc EXCEPT ![t] = "done"]
    /\ UNCHANGED <<usable, backends, backends_initialized, environments_file,
                   store, removed, last, nops, now, models_vars, gpg_vars, clipboard_vars,
                   monitor_vars,
                   cursor, ran_init>>

\* two threads make their first call on the shared manager
NextThreads ==
    \E t \in Threads :
        \/ BackendsGuard(t)
        \/ InitLoopStep(t)
        \/ FallbackStep(t)
        \/ SetBackendsFlag(t)
        \/ EnvironmentsGuard(t)
        \/ LoadEnvironments(t)

SpecThreads == Init /\ [][NextThreads]_vars

\* ------------------------------------------------------- SecureClipboard
\* threading.Timer(timeout, self._clear_clipboard_callback,
\* args=(restore_original,)) after start(): waiting, then running its
\* callback, then finished; or cancelled before it fired
Timer(restore_original) == [state |-> "waiting", restore_original |-> restore_original]

\* Thread.is_alive(): started and not yet ended
IsAlive(timer) == timer.state \in {"waiting", "running"}

\* Timer.cancel(): a timer that has not fired will not; a callback that is
\* running is not stopped
Cancel(timer) ==
    IF timer.state = "waiting" THEN [timer EXCEPT !.state = "cancelled"]
    ELSE timer

\* SecureClipboard._cancel_timer
cancel_timer(tm, ct) ==
    IF ct # 0 /\ IsAlive(tm[ct])
    THEN [timers |-> [tm EXCEPT ![ct] = Cancel(@)], clear_timer |-> 0]
    ELSE [timers |-> tm, clear_timer |-> ct]

\* SecureClipboard.clear_clipboard, the body under self._lock: cancel the
\* timer, overwrite three times with secrets.token_hex(32), then restore
\* the saved content or clear
clear_clipboard(tm, ct, saved, restore_original) ==
    LET c == cancel_timer(tm, ct)
    IN  [timers |-> c.timers,
         clear_timer |-> c.clear_timer,
         clipboard |-> IF restore_original /\ saved # None THEN saved
                       ELSE Text(""),
         original_content |-> None]

\* the values callers copy, and what the user had on the clipboard
SensitiveData == { Text("s1"), Text("s2") }

UserContent == { Text(""), Text("x") }

\* SecureClipboard() on a desktop where the user has copied something
InitClipboard ==
    /\ \E classes \in {{}} : NewManager(classes)
    /\ now = 0
    /\ NoModels
    /\ NoGPG
    /\ NoThreads
    /\ \E content \in UserContent : NewClipboard(content)
    /\ NewMonitor

\* SecureClipboard.copy_sensitive(data, clear_after, restore_original);
\* paste_ok: pyperclip.paste() did not raise
CopySensitive(data, clear_after, restore_original, paste_ok) ==
    LET c == cancel_timer(timers, clear_timer)
        timeout == IF clear_after # None THEN clear_after.v ELSE 45
    IN  /\ nops < MaxOps
        /\ nops' = nops + 1
        /\ original_content' = IF restore_original
                               THEN IF paste_ok THEN clipboard ELSE None
                               ELSE original_content
        /\ clipboard' = data
        /\ IF timeout > 0
           THEN /\ timers' = Append(c.timers, Timer(restore_original))
                /\ clear_timer' = Len(c.timers) + 1
           ELSE /\ timers' = c.timers
                /\ clear_timer' = c.clear_timer
        /\ copied' = copied \cup {data}
        /\ plain_calls' = (plain_calls /\ timeout > 0 /\ restore_original)
        /\ UNCHANGED <<manager_state, now, models_vars, gpg_vars, thread_vars, monitor_vars>>

\* the timeout of timer i passes: its thread calls the callback
TimerFires(i) ==
    /\ i \in 1..Len(timers)
    /\ timers[i].state = "waiting"
    /\ timers' = [timers EXCEPT ![i].state = "running"]
    /\ UNCHANGED <<manager_vars, now, models_vars, gpg_vars, thread_vars, monitor_vars,
                   clipboard, clear_timer, original_content, copied,
                   plain_calls>>

\* _clear_clipboard_callback(restore_original) of timer i gets the lock and
\* runs clear_clipboard(restore_original=restore_original) to its end
ClearClipboardCallback(i) ==
    /\ i \in 1..Len(timers)
    /\ timers[i].state = "running"
    /\ LET w == clear_clipboard(timers, clear_timer, original_content,
                                timers[i].restore_original)
       IN  /\ timers' = [w.timers EXCEPT ![i].state = "finished"]
           /\ clear_timer' = w.clear_timer
           /\ clipboard' = w.clipboard
           /\ original_content' = w.original_content
    /\ UNCHANGED <<manager_vars, now, models_vars, gpg_vars, thread_vars, monitor_vars,
                   copied, plain_calls>>

\* SecureClipboard.immediate_clear()
ImmediateClear ==
    LET w == clear_clipboard(timers, clear_timer, original_content, FALSE)
    IN  /\ nops < MaxOps
        /\ nops' = nops + 1
        /\ timers' = w.timers
        /\ clear_timer' = w.clear_timer
        /\ clipboard' = w.clipboard
        /\ original_content' = w.original_content
        /\ UNCHANGED <<manager_state, now, models_vars, gpg_vars, thread_vars, monitor_vars,
                       copied, plain_calls>>

NextClipboard ==
    \/ \E data \in SensitiveData, clear_after \in { None, Int_(0) },
          restore_original \in BOOLEAN, paste_ok \in BOOLEAN :
           CopySensitive(data, clear_after, restore_original, paste_ok)
    \/ \E i \in 1..MaxOps : TimerFires(i)
    \/ \E i \in 1..MaxOps : ClearClipboardCallback(i)
    \/ ImmediateClear

SpecClipboard == InitClipboard /\ [][NextClipboard]_vars

\* ------------------------------------------------------ ClipboardMonitor
\* a thread running _monitor_loop, about to test "while self._monitoring"
MonitorThread == [at |-> "while"]

\* _contains_sensitive_data(content): some pattern matches the content
contains_sensitive_data(content, patterns) ==
    /\ content.s # ""
    /\ patterns # {}
    /\ content.s \in patterns

\* ClipboardMonitor(SecureClipboard()) on a desktop where the clipboard
\* holds something
InitMonitor ==
    /\ \E classes \in {{}} : NewManager(classes)
    /\ now = 0
    /\ NoModels
    /\ NoGPG
    /\ NoThreads
    /\ \E content \in UserContent \cup SensitiveData : NewClipboard(content)
    /\ NewMonitor

\* ClipboardMonitor.add_sensitive_pattern(pattern)
AddSensitivePattern(pattern) ==
    /\ caller = "idle"
    /\ nops < MaxOps
    /\ nops' = nops + 1
    /\ sensitive_patterns' = sensitive_patterns \cup {pattern}
    /\ UNCHANGED <<manager_state, now, models_vars, gpg_vars, thread_vars,
                   clipboard_vars, monitoring, monitor_thread, loops, caller>>

\* ClipboardMonitor.start_monitoring()
StartMonitoring ==
    /\ caller = "idle"
    /\ nops < MaxOps
    /\ nops' = nops + 1
    /\ IF monitoring
       THEN UNCHANGED <<monitoring, monitor_thread, loops>>
       ELSE /\ monitoring' = TRUE
            /\ loops' = Append(loops, MonitorThread)
            /\ monitor_thread' = Len(loops) + 1
    /\ UNCHANGED <<manager_state, now, models_vars, gpg_vars, thread_vars,
                   clipboard_vars, sensitive_patterns, caller>>

\* ClipboardMonitor.stop_monitoring() up to the join: the flag is cleared
\* and the caller waits for self._monitor_thread, if there is one
StopMonitoring ==
    /\ caller = "idle"
    /\ nops < MaxOps
    /\ nops' = nops + 1
    /\ monitoring' = FALSE
    /\ caller' = IF monitor_thread # 0 THEN "join" ELSE "idle"
    /\ UNCHANGED <<manager_state, now, models_vars, gpg_vars, thread_vars,
                   clipboard_vars, monitor_thread, loops, sensitive_patterns>>

\* self._monitor_thread.join(timeout=1) returns: the thread has ended, or
\* the second has passed while it is still in its loop
JoinReturns ==
    /\ caller = "join"
    /\ caller' = "idle"
    /\ UNCHANGED <<manager_vars, now, models_vars, gpg_vars, thread_vars,
                   clipboard_vars, monitoring, monitor_thread, loops,
                   sensitive_patterns>>

\* _monitor_loop line 268: while self._monitoring
LoopTest(i) ==
    /\ i \in 1..Len(loops)
    /\ loops[i].at = "while"
    /\ loops' = [loops EXCEPT ![i].at = IF monitoring THEN "try" ELSE "exited"]
    /\ UNCHANGED <<manager_vars, now, models_vars, gpg_vars, thread_vars,
                   clipboard_vars, monitoring, monitor_thread,
                   sensitive_patterns, caller>>

\* _monitor_loop lines 269-276: paste, and clear_clipboard when the content
\* is sensitive
LoopBody(i) ==
    /\ i \in 1..Len(loops)
    /\ loops[i].at = "try"
    /\ loops' = [loops EXCEPT ![i].at = "sleep"]
    /\ IF contains_sensitive_data(clipboard, sensitive_patterns)
       THEN LET w == clear_clipboard(timers, clear_timer, original_content,
                                     FALSE)
            IN  /\ timers' = w.timers
                /\ clear_timer' = w.clear_timer
                /\ clipboard' = w.clipboard
                /\ original_content' = w.original_content
       ELSE UNCHANGED <<timers, clear_timer, clipboard, original_content>>
    /\ UNCHANGED <<manager_vars, now, models_vars, gpg_vars, thread_vars,
                   copied, plain_calls, monitoring, monitor_thread,
                   sensitive_patterns, caller>>

\* _monitor_loop line 278: time.sleep(check_interval) returns
LoopWakes(i) ==
    /\ i \in 1..Len(loops)
    /\ loops[i].at = "sleep"
    /\ loops' = [loops EXCEPT ![i].at = "while"]
    /\ UNCHANGED <<manager_vars, now, models_vars, gpg_vars, thread_vars,
                   clipboard_vars, monitoring, monitor_thread,
                   sensitive_patterns, caller>>

NextMonitor ==
    \/ \E pattern \in {"s1"} : AddSensitivePattern(pattern)
    \/ StartMonitoring
    \/ StopMonitoring
    \/ JoinReturns
    \/ \E i \in 1..MaxOps : LoopTest(i)
    \/ \E i \in 1..MaxOps : LoopBody(i)
    \/ \E i \in 1..MaxOps : LoopWakes(i)

SpecMonitor == InitMonitor /\ [][NextMonitor]_vars

\* ======================================================== claim vocabulary
\* the step is a manager call (not a clock tick)
CallStep == nops' = nops + 1

\* the arguments resolved to an environment of the registry
Resolved(l) == l.msg # "Environment not found"

\* number of backends in the chain that failed the write of call l
Failures(l) == Cardinality({ i \in DOMAIN l.outs : l.outs[i] # "ok" })

\* what backend i of the chain answers for key under the read outcomes outs:
\* a credential, or nothing (absent, raised, or data that does not validate)
AnswerIn(chain, st, i, key, env_name, outs) ==
    LET result == BackendGet(chain[i], st[chain[i]], key, outs[i])
    IN  IF result.ret # "tuple" THEN [ok |-> FALSE]
        ELSE DatabaseCredentials(
                 [environment |-> env_name,
                  username |-> result.username,
                  password |-> result.password,
                  host |-> result.metadata.host,
                  port |-> result.metadata.port,
                  database |-> result.metadata.database,
                  options |-> result.metadata.options,
                  password_updated_at |-> result.metadata.password_updated_at,
                  password_expires_at |-> result.metadata.password_expires_at])

Answer(i, key, env_name, outs) == AnswerIn(backends, store, i, key, env_name, outs)

\* the first backend in chain order that answers with a credential, 0 if none
FirstAnswering(key, env_name, outs) ==
    LET S == { i \in 1..Len(backends) : Answer(i, key, env_name, outs).ok }
    IN  IF S = {} THEN 0 ELSE CHOOSE i \in S : \A j \in S : i <= j

\* the same five fields
SameFields(a, b) ==
    /\ a.host = b.host
    /\ a.port = b.port
    /\ a.database = b.database
    /\ a.username = b.username
    /\ a.password = b.password

\* ---------------------------------------------------------------------- C1
\* C1: round trip.  A get_credentials that follows a successful
\* set_credentials on the same environment returns a credential with the
\* written host, port, database, username and password.  Stated for the
\* cases the rest of the specification does not itself exclude: a backend
\* that keeps passwords accepted the write, and the written password is not
\* expired when it is read with check_expiry.
C1_RoundTrip ==
    [][(/\ CallStep
        /\ last.op = "set" /\ last.outcome = "ok"
        /\ \E i \in DOMAIN last.outs :
               last.outs[i] = "ok" /\ backends[i] # "config"
        /\ last'.op = "get" /\ Lower(last'.env) = Lower(last.env)
        /\ ~(last'.check /\ last.cred.password_expires_at # None
                         /\ now > last.cred.password_expires_at.t))
       => (last'.outcome = "ok" /\ SameFields(last'.cred, last.cred))]_vars

\* ---------------------------------------------------------------------- C2
\* C2: get_credentials(E, check_expiry=true) raises PasswordExpiredError
\* whenever the credential found for E in the chain has an expiry that the
\* clock has passed.
C2_ExpiredRaises ==
    (/\ last.op = "get" /\ last.check /\ Resolved(last)
     /\ FirstAnswering(StorageKey(Lower(last.env)), Lower(last.env), last.outs) # 0
     /\ LET f == FirstAnswering(StorageKey(Lower(last.env)), Lower(last.env), last.outs)
            found == Answer(f, StorageKey(Lower(last.env)), Lower(last.env), last.outs).creds
        IN  /\ found.password_expires_at # None
            /\ last.t > found.password_expires_at.t)
    => last.outcome = "PasswordExpiredError"

\* ---------------------------------------------------------------------- C3
\* C3: a set_credentials on an existing environment succeeds iff fewer than
\* all N backends fail the write, and raises BackendError iff all N fail.
C3_WriteSucceedsUnlessAllFail ==
    (last.op = "set" /\ Resolved(last) /\ last.outcome # "ValidationError")
    => /\ (last.outcome = "ok") <=> (Failures(last) < Len(backends))
       /\ (last.outcome = "BackendError") <=> (Failures(last) = Len(backends))

\* ---------------------------------------------------------------------- C4
\* C4: once an environment has been removed (after being added, with any
\* set_credentials in between) it is not in the registry, and a
\* get_credentials for it raises CredentialNotFoundError, until it is added
\* again.
C4_RemovedIsGone ==
    /\ \A n \in removed : n \notin DOMAIN environments
    /\ (last.op = "get" /\ Lower(last.env) \in removed)
       => last.outcome = "CredentialNotFoundError"

\* a get_credentials on a removed environment whose credential a backend
\* still holds, because that backend's delete failed
C4_Witness ==
    /\ last.op = "get"
    /\ Lower(last.env) \in removed
    /\ last.outcome = "CredentialNotFoundError"
    /\ \E c \in DOMAIN store : store[c][StorageKey(Lower(last.env))] # None

\* ---------------------------------------------------------------------- C5
\* C5: get_credentials returns the credential of the first backend in chain
\* order that answers (a backend that raises, or whose data cannot be read,
\* counts as absent), and raises CredentialNotFoundError only when no backend
\* answers.
C5_ReadFallback ==
    (last.op = "get" /\ Resolved(last))
    => LET f == FirstAnswering(StorageKey(Lower(last.env)), Lower(last.env),
                               last.outs)
       IN  /\ last.outcome = "ok" => last.src = f
           /\ last.outcome = "CredentialNotFoundError" => f = 0

\* ---------------------------------------------------------------------- C6
\* backend class c holds the credential under key, in its own representation
\* (the config file keeps no password, the environment keeps strings)
Holds(c, key, cred) ==
    /\ store[c][key] # None
    /\ store[c][key].username = cred.username
    /\ c # "config" => store[c][key].password = cred.password
    /\ store[c][key].metadata.host = cred.host
    /\ store[c][key].metadata.database = cred.database
    /\ IF c = "environment"
       THEN store[c][key].metadata.port.digits = cred.port
       ELSE store[c][key].metadata.port = cred.port
    /\ store[c][key].metadata.password_updated_at.t = cred.password_updated_at.t

\* C6: write fan-out.  set_credentials calls set_credential on every backend
\* of the chain, in chain order, whatever the earlier backends did; after a
\* successful call every backend that accepted holds the new value under
\* "dbcreds:" + lowercase(environment).
C6_WriteFanOut ==
    (last.op = "set" /\ Resolved(last) /\ last.outcome # "ValidationError")
    => /\ last.attempted = [i \in 1..Len(backends) |-> i]
       /\ last.outcome = "ok"
          => \A i \in 1..Len(backends) :
                last.outs[i] = "ok"
                => Holds(backends[i], <<"dbcreds:">> \o Lower(last.env), last.cred)

\* a successful write given an upper-case name in which the first backend
\* failed and the two after it accepted
C6_Witness ==
    /\ last.op = "set" /\ last.outcome = "ok"
    /\ last.env = <<"D">>
    /\ Len(backends) = 3
    /\ last.outs[1] # "ok" /\ last.outs[2] = "ok" /\ last.outs[3] = "ok"
    /\ last.attempted = <<1, 2, 3>>

\* ---------------------------------------------------------------------- C7
\* every key of the registry is lowercase and is the name of its entry
KeysLowercase(envs) ==
    \A k \in DOMAIN envs :
        /\ envs[k].name = k
        /\ \A i \in 1..Len(k) : k[i] \notin {"D", "T"}

\* C7: add_environment of a name that equals a registered name up to letter
\* case raises the "already exists" CredentialError and leaves the registry,
\* in memory and on disk, as it was; any other valid name is stored under its
\* lowercase form; registry keys are always lowercase.
C7_AddEnvironment ==
    [][(CallStep /\ last'.op = "add")
       => /\ IF \E k \in DOMAIN environments : Lower(k) = Lower(last'.env)
             THEN /\ last'.outcome = "CredentialError"
                  /\ last'.msg = "already exists"
                  /\ environments' = environments
                  /\ environments_file' = environments_file
             ELSE ValidName(last'.env)
                  => /\ last'.outcome = "ok"
                     /\ Lower(last'.env) \in DOMAIN environments'
                     /\ \A k \in DOMAIN environments : k \in DOMAIN environments'
          /\ KeysLowercase(environments')]_vars

\* "D" was refused because "d" is registered
C7_Witness ==
    /\ last.op = "add"
    /\ last.env = <<"D">>
    /\ last.outcome = "CredentialError" /\ last.msg = "already exists"
    /\ <<"d">> \in DOMAIN environments

StoredDate(c, v) == IF c = "environment" THEN Str(Iso(v)) ELSE Iso(v)

C11_ExpiresNotBeforeUpdated ==
    (last.op = "set" /\ last.outcome = "ok"
     /\ last.cred.password_expires_at # None)
    => last.cred.password_expires_at.t >= last.cred.password_updated_at.t

\* --------------------------------------------------------------------- C12
\* C12: is_password_expired() returns true iff password_expires_at is set
\* and now > password_expires_at; it returns false when now equals
\* password_expires_at and when no expiry is set.
C12_IsPasswordExpired ==
    (obs.op = "is_password_expired")
    => /\ obs.result.exc = ""
       /\ obs.result.ret = (/\ credentials.password_expires_at # None
                            /\ obs.t > credentials.password_expires_at.t)

\* --------------------------------------------------------------------- C13
\* C13: days_until_expiry() returns None iff password_expires_at is None;
\* otherwise it returns the whole number of days from now to
\* password_expires_at, 0 when that is negative, and for a fixed credential
\* a later call never returns more than an earlier one.
C13_DaysUntilExpiry ==
    [][(obs'.op = "days_until_expiry")
       => /\ obs'.result.exc = ""
          /\ (obs'.result.ret = None) <=> (credentials.password_expires_at = None)
          /\ credentials.password_expires_at # None
             => LET left == credentials.password_expires_at.t - obs'.t
                    d == obs'.result.ret.v
                IN  /\ d >= 0
                    /\ IF left < 0 THEN d = 0
                       ELSE d * DayLen <= left /\ left < (d + 1) * DayLen
                    /\ obs.op = "days_until_expiry" => d <= obs.result.ret.v]_vars

C15_RemoveEnvironment ==
    [][(CallStep /\ last'.op = "remove")
       => LET env_name == Lower(last'.env)
              key == StorageKey(env_name)
          IN  IF env_name \notin DOMAIN environments
              THEN /\ last'.outcome = "CredentialNotFoundError"
                   /\ last'.steps = <<>>
                   /\ environments' = environments
                   /\ environments_file' = environments_file
                   /\ store' = store
              ELSE /\ last'.outcome = "ok"
                   /\ last'.steps =
                        [i \in 1..Len(backends') |-> DeleteCall(i)]
                        \o <<DelEntry, SaveCall>>
                   /\ DOMAIN environments' = (DOMAIN environments) \ {env_name}
                   /\ \A n \in DOMAIN environments' :
                         environments'[n] = environments[n]
                   /\ environments_file' \in
                        { environments_file,
                          { environments'[n] : n \in DOMAIN environments' } }
                   /\ \A i \in 1..Len(backends') :
                         IF last'.outs[i] = "ok"
                         THEN store'[backends'[i]][key] = None
                         ELSE store'[backends'[i]][key] = store[backends'[i]][key]]_vars

\* an environment was removed although the first backend raised on delete
\* and still holds the credential; the two backends after it were called and
\* hold nothing
C15_Witness ==
    /\ last.op = "remove" /\ last.outcome = "ok"
    /\ Len(backends) = 3
    /\ last.outs = <<"raise", "ok", "ok">>
    /\ Len(last.steps) = 5
    /\ Lower(last.env) \notin DOMAIN environments
    /\ store["keyring"][StorageKey(Lower(last.env))] # None
    /\ store["environment"][StorageKey(Lower(last.env))] = None
    /\ store["config"][StorageKey(Lower(last.env))] = None

C17_SignatureFailureRaises ==
    [][(/\ nops' = nops + 1
        /\ gpg_last'.op = "get_credential"
        /\ get_credential_path(gpg_last'.key) \in DOMAIN cred_files
        /\ get_credential_path(gpg_last'.key) \in DOMAIN sig_files
        /\ sign_key # None
        /\ ~VerifyData(sig_files[get_credential_path(gpg_last'.key)],
                       cred_files[get_credential_path(gpg_last'.key)]).valid)
       => /\ gpg_last'.result.exc = "SecurityError"
          /\ gpg_last'.result.ret # "tuple"]_vars

C19_RotationPreservesData ==
    (gpg_last.op = "rotate_keys")
    => \A k \in gpg_last.rotated :
          (/\ cred_files[k] # Tampered
           /\ Recipients(gpg_last.new_recipients, default_recipients)
                  \cap secret_keys # {})
          => LET after == GPGGet(cred_files, sig_files, k, sign_key, secret_keys)
             IN  /\ after.ret = "tuple"
                 /\ after.username = gpg_last.before[k].username
                 /\ after.password = gpg_last.before[k].password
                 /\ after.metadata = gpg_last.before[k].metadata

C21_NoPasswordInConfig ==
    /\ \A key \in Keys :
          store["config"][key] # None
          => /\ DOMAIN store["config"][key] = {"username", "metadata"}
             /\ "password" \notin DOMAIN store["config"][key].metadata
    /\ (last.op = "config.get_credential" /\ last.result.ret = "tuple")
       => /\ last.result.password = ""
          /\ last.result.username = store["config"][last.key].username
          /\ last.result.metadata = store["config"][last.key].metadata
    /\ (last.op = "config.get_credential" /\ last.out = "ok"
        /\ store["config"][last.key] # None)
       => last.result.ret = "tuple"

\* both keys were written with metadata that carried a password, and a
\* get_credential returned the username of the second write with an empty
\* password
C21_Witness ==
    /\ last.op = "config.get_credential"
    /\ last.result.ret = "tuple"
    /\ last.result.username = "u2"
    /\ last.result.password = ""
    /\ \A key \in ConfigKeys : store["config"][key] # None

\* --------------------------------------------------------------------- C22
\* C22: set_credentials on an environment that is not in the registry
\* raises CredentialNotFoundError and writes to no backend: the content of
\* every backend, the registry and environments.json are unchanged.
C22_SetOnUnknownWritesNothing ==
    [][(/\ CallStep
        /\ last'.op = "set"
        /\ Lower(last'.env) \notin DOMAIN environments)
       => /\ last'.outcome = "CredentialNotFoundError"
          /\ last'.msg = "Environment not found"
          /\ last'.cred = None
          /\ store' = store
          /\ environments' = environments
          /\ environments_file' = environments_file]_vars

\* a write for "d_t" was refused while "d" is registered and a backend
\* holds the credential of "d" and nothing for "d_t"
C22_Witness ==
    /\ last.op = "set"
    /\ last.env = <<"d", "_", "t">>
    /\ last.outcome = "CredentialNotFoundError"
    /\ DOMAIN environments = { <<"d">> }
    /\ \E c \in DOMAIN store :
          /\ store[c][StorageKey(<<"d">>)] # None
          /\ store[c][StorageKey(<<"d", "_", "t">>)] = None

\* --------------------------------------------------------------------- C23
\* number of times backend class c is in the list
Occurrences(list, c) == Cardinality({ i \in 1..Len(list) : list[i] = c })

\* C23: the boolean guard of _ensure_initialized does not make backend
\* initialization happen once.  Whenever two threads have both passed the
\* guard and both finished, every usable backend is in the shared list
\* twice (once per thread); with no usable backend the config-file fallback
\* is in it once or twice.  A thread that finds the flag set appends
\* nothing.
C23_GuardNotThreadSafe ==
    (\A t \in Threads : pc[t] = "done")
    => LET n == Cardinality({ t \in Threads : ran_init[t] })
       IN  /\ n >= 1
           /\ usable # {}
              => \A c \in {"keyring", "environment", "config"} :
                    Occurrences(backends, c) = IF c \in usable THEN n ELSE 0
           /\ usable = {}
              => /\ Occurrences(backends, "config") \in 1..n
                 /\ Len(backends) = Occurrences(backends, "config")

\* both threads passed the guard and the list holds every backend twice,
\* the two keyring backends next to each other
C23_Witness ==
    /\ \A t \in Threads : pc[t] = "done" /\ ran_init[t]
    /\ usable = {"keyring", "environment", "config"}
    /\ Len(backends) = 6
    /\ backends[1] = "keyring" /\ backends[2] = "keyring"

\* --------------------------------------------------------------------- C24
\* C24: SecureClipboard auto-clear.  For any sequence of copy_sensitive
\* calls with a positive timeout and restore_original at its default, once
\* the last started clear timer has fired and its callback has finished,
\* the clipboard holds no value that was passed to copy_sensitive.
C24_AutoClear ==
    (/\ plain_calls
     /\ timers # <<>>
     /\ timers[Len(timers)].state = "finished")
    => clipboard \notin copied

\* --------------------------------------------------------------------- C25
\* C25: read-your-latest-write across the chain.  After a set_credentials
\* (E, v2) that succeeded, get_credentials(E, check_expiry=false) returns
\* v2 and never an older value, for every pattern of per-backend write
\* failures in which at least one backend accepted v2.  Stated in its
\* weakest form: a credential that the read returns has the host, port,
\* database and username of v2, and the password of v2 or the empty
\* password of the config file.
C25_ReadLatestWrite ==
    [][(/\ CallStep
        /\ last.op = "set" /\ last.outcome = "ok"
        /\ last'.op = "get" /\ ~last'.check
        /\ Lower(last'.env) = Lower(last.env)
        /\ last'.outcome = "ok")
       => /\ last'.cred.host = last.cred.host
          /\ last'.cred.port = last.cred.port
          /\ last'.cred.database = last.cred.database
          /\ last'.cred.username = last.cred.username
          /\ last'.cred.password \in {last.cred.password, ""}]_vars

\* --------------------------------------------------------------------- C26
\* C26: environment isolation on delete.  remove_environment(E) leaves the
\* credentials stored for every other registered environment unchanged in
\* every backend, also when one name is the other followed by an
\* underscore and more ("d" and "d_t").
C26_DeleteIsolation ==
    [][(CallStep /\ last'.op = "remove" /\ last'.outcome = "ok")
       => \A n \in DOMAIN environments' :
             \A c \in DOMAIN store :
                 store'[c][StorageKey(n)] = store[c][StorageKey(n)]]_vars

\* --------------------------------------------------------------------- C27
\* C27: GPG sign/verify consistency.  With a signing key configured, a
\* credential written by set_credential (ciphertext and signature of the
\* same write, not modified since) passes the signature check of a
\* following get_credential on the same key and is returned with the
\* written username, password and metadata, to a holder of a secret key of
\* one of its recipients.
C27_SignVerifyConsistent ==
    [][(/\ nops' = nops + 1
        /\ gpg_last'.op = "get_credential"
        /\ sign_key # None
        /\ get_credential_path(gpg_last'.key) \in DOMAIN cred_files
        /\ get_credential_path(gpg_last'.key) \in DOMAIN sig_files
        /\ LET path == get_credential_path(gpg_last'.key)
           IN  /\ cred_files[path].kind = "pgp"
               /\ sig_files[path] = Sign(cred_files[path].plain, sign_key)
               /\ cred_files[path].to \cap secret_keys # {})
       => LET written == cred_files[get_credential_path(gpg_last'.key)].plain
          IN  /\ gpg_last'.result.ret = "tuple"
              /\ gpg_last'.result.checked
              /\ gpg_last'.result.username = written.username
              /\ gpg_last'.result.password = written.password
              /\ gpg_last'.result.metadata = written.metadata]_vars

\* --------------------------------------------------------------------- C28
\* C28: no resurrection of removed credentials.  After remove_environment
\* (E) followed by add_environment(E), get_credentials(E) raises
\* CredentialNotFoundError until set_credentials(E, ...) is called again,
\* for every pattern of per-backend delete failures during the removal.
C28_NoResurrection ==
    [][(/\ CallStep
        /\ last.op = "add" /\ last.outcome = "ok" /\ last.readd
        /\ last'.op = "get"
        /\ Lower(last'.env) = Lower(last.env))
       => last'.outcome = "CredentialNotFoundError"]_vars

\* --------------------------------------------------------------------- C29
\* the four lifecycle states of an observed expiry status
NoExpiry(o) == o.days.exc = "" /\ o.days.ret = None

Fresh(o) ==
    /\ o.days.exc = ""
    /\ o.days.ret # None
    /\ o.days.ret.v > ExpiringSoonDays

ExpiringSoon(o) ==
    /\ o.days.exc = ""
    /\ o.days.ret # None
    /\ 0 < o.days.ret.v
    /\ o.days.ret.v <= ExpiringSoonDays

Expired(o) == o.expired.exc = "" /\ o.expired.ret

\* how many of the four states hold
StatesHolding(o) ==
    Cardinality({ n \in 1..4 : CASE n = 1 -> NoExpiry(o)
                                  [] n = 2 -> Fresh(o)
                                  [] n = 3 -> ExpiringSoon(o)
                                  [] n = 4 -> Expired(o) })

\* less than one whole day remains until an expiry that has not passed
LastDay(o) ==
    /\ credentials.password_expires_at # None
    /\ o.t <= credentials.password_expires_at.t
    /\ credentials.password_expires_at.t - o.t < DayLen

Looping == { i \in 1..Len(loops) : loops[i].at \in {"try", "sleep"} }

\* C30: ClipboardMonitor runs at most one monitor loop at any time: for
\* every interleaving of start_monitoring and stop_monitoring calls, also
\* a start issued after a stop whose join timed out while the old loop was
\* still sleeping, no two monitor threads are in _monitor_loop together.
C30_OneMonitorLoop == Cardinality(Looping) <= 1
====
